---- MODULE Spec2Model ----
(***************************************************************************)
(* Activity monitor of the telegram gas tracker: the wallet loop           *)
(* (WalletTracker.monitor_wallet_transactions), the storage handler with   *)
(* its cache (WalletTrackerStorage) and the gas loop                       *)
(* (GasTracker.monitor_gas_prices).                                        *)
(*                                                                         *)
(* The program is a set of asyncio tasks on one event loop.  A task runs   *)
(* without interruption between two suspension points (network calls and   *)
(* sleeps); every action below is one such run of one task.                *)
(***************************************************************************)
EXTENDS Integers, Sequences, FiniteSets, TLC

\* ------------------------------------------------------------------------
\* Bounds of the model
\* ------------------------------------------------------------------------
MaxBlock == 3        \* highest block number the chain reaches
MaxTx == 3           \* most transactions of the watched addresses on the chain
MaxTxPerBlock == 2   \* most transactions of one address in one block
MaxWallets == 2      \* longest watch list a subscriber builds by add
MaxFaults == 1       \* most failures of the environment (Store, HTTP, Telegram) in a run
MaxCmds == 1         \* most registry commands in a run
MaxCrashes == 1      \* most restarts of the process in a run
MaxGas == 6          \* highest gas price the oracle reports

\* config.update_threshold (UPDATE_THRESHOLD, default "5")
update_threshold == 5

\* max_sleep_time the wallet loop passes to __calculate_sleep_time, in seconds
max_sleep_time == 15

Chats == {1, 2}
Addrs == {"a", "b"}
Tags == {"#t"}

\* ------------------------------------------------------------------------
\* Values
\* ------------------------------------------------------------------------
MISSING == -1     \* the key last_checked_block is absent (KeyError)
INVALID == -2     \* last_checked_block is present and int() raises ValueError
None == -1        \* Python None in new_last_checked_block
Unbound == -2     \* new_last_checked_block was never assigned

\* Store and cache are dictionaries keyed by chat_id: has tells whether the key
\* is present, ws is its watch list.
Absent == [has |-> FALSE, ws |-> <<>>]

Has(d, c) == d[c].has

Get(d, c) == d[c].ws

Put(d, c, v) == [d EXCEPT ![c] = [has |-> TRUE, ws |-> v]]

Min(x, y) == IF x <= y THEN x ELSE y

Abs(x) == IF x < 0 THEN -x ELSE x

\* A watch as the Store holds it.
Wallet(a, t, b, p) ==
    [wallet_address |-> a, wallet_tag |-> t, last_checked_block |-> b, paused |-> p]

\* int(wallet["last_checked_block"]) succeeds
ValidBlock(w) == w.last_checked_block >= 0

HasAddr(ws, a) == \E i \in 1..Len(ws) : ws[i].wallet_address = a

\* index of the first watch of the list with the address (0: none)
FirstIdx(ws, a) ==
    IF HasAddr(ws, a)
    THEN CHOOSE i \in 1..Len(ws) :
            /\ ws[i].wallet_address = a
            /\ \A j \in 1..(i - 1) : ws[j].wallet_address # a
    ELSE 0

FilterOut(ws, a) == SelectSeq(ws, LAMBDA w : w.wallet_address # a)

\* ------------------------------------------------------------------------
\* State
\* ------------------------------------------------------------------------
VARIABLES
    store,      \* the DynamoDB table WalletTracker: chat_id -> tracked_wallets
    cache,      \* WalletTrackerStorage.tracked_wallets_cache: chat_id -> list
    head,       \* current block number of the chain
    chain,      \* address -> block numbers of its transactions, ascending (the txlist source)
    wpc,        \* where the wallet loop is suspended
    todo,       \* watches of the scanned items the tick has not finished; Head is the current one
    nlcb,       \* local new_last_checked_block of monitor_wallet_transactions
    batch,      \* transactions of the current check (indices into chain[address])
    k,          \* position in batch of the transaction being processed
    emitted,    \* send_message calls made for transactions in the current (or last) check
    delivered,  \* <<chat_id, address>> -> transactions delivered to the chat so far
    errNotified,\* <<chat_id, address>> pairs that were sent the invalid-block message
    rpc,        \* cache refresh loop (update_db_cache): "run" or "exited"
    faults,     \* failures of the environment so far
    cmds,       \* registry commands so far
    reply,      \* outcome of the last registry handler: the chat, the reply_text sent, the address it names
    started,    \* <<chat_id, address>> -> last_checked_block the watch was added with (0: no watch)
    crashes,    \* restarts of the process so far
    undelivered,\* <<chat_id, address, transaction>> whose send_message raised
    gpc,        \* where the gas loop is suspended
    subscribers,\* GasTracker.subscribers
    last_sent_prices, \* GasTracker.last_sent_prices: chat_id -> reading
    gasNew,     \* reading fetched in the current gas tick
    gasCur,     \* subscriber whose send the gas loop is awaiting (0: none)
    gasSize,    \* size of the subscriber set when its iteration started
    gasSeen,    \* subscribers the for loop of the current tick has visited
    gasSent,    \* subscribers the current tick has called send_message for
    total_transactions, \* __calculate_sleep_time: number of transactions of the batch
    processing_time,    \* __calculate_sleep_time: seconds since the check started
    max_sleep,          \* __calculate_sleep_time: the max_sleep_time argument, in seconds
    sleep_time,         \* what __calculate_sleep_time returned, in quarters of a second (None: not called yet)
    answers,            \* __get_eth_price_usd: what each provider answers, in the order of `providers`
    eth_price,          \* outcome of __get_eth_price_usd
    message,            \* outcome of __process_transaction
    listed,             \* list_tracked_wallets: the chat that asked and the list get_tracked_wallets returned
    user_thresholds,    \* GasTracker.user_thresholds: chat_id -> {"green", "yellow"}
    request             \* received_thresholds: the chat and the message of the last request

\* arguments and results of the functions that are checked on their own
paceVars == <<total_transactions, processing_time, max_sleep, sleep_time>>

oracleVars == <<answers, eth_price, message>>

listVars == <<listed>>

thresholdVars == <<user_thresholds, request>>

pureVars == <<paceVars, oracleVars, listVars, thresholdVars>>

walletVars == <<store, cache, head, chain, wpc, todo, nlcb, batch, k, emitted,
                delivered, errNotified, rpc, faults, cmds, reply, started, crashes, undelivered, pureVars>>

gasVars == <<gpc, subscribers, last_sent_prices, gasNew, gasCur, gasSize, gasSeen, gasSent>>

vars == <<store, cache, head, chain, wpc, todo, nlcb, batch, k, emitted,
          delivered, errNotified, rpc, faults, cmds, reply, started, crashes, undelivered,
          gpc, subscribers, last_sent_prices, gasNew, gasCur, gasSize, gasSeen, gasSent,
          total_transactions, processing_time, max_sleep, sleep_time, answers, eth_price, message,
          listed, user_thresholds, request>>

\* ------------------------------------------------------------------------
\* WalletTrackerStorage: each operation maps Store and cache to the new pair
\* ------------------------------------------------------------------------

\* (variant: the Store is read first, the cache serves only when the read fails)
get_tracked_wallets_store_first(st, ca, c, readOk) ==
    IF readOk /\ Has(st, c)
    THEN [list |-> Get(st, c), cache |-> Put(ca, c, Get(st, c)), aliased |-> TRUE]
    ELSE IF Has(ca, c)
    THEN [list |-> Get(ca, c), cache |-> ca, aliased |-> TRUE]
    ELSE [list |-> <<>>, cache |-> ca, aliased |-> FALSE]

\* get_tracked_wallets: the returned list is the cached list object itself
\* whenever the cache has (or gets) an entry.
get_tracked_wallets(st, ca, c, readOk) ==
    IF Has(ca, c)
    THEN [list |-> Get(ca, c), cache |-> ca, aliased |-> TRUE]
    ELSE IF ~readOk
    THEN [list |-> <<>>, cache |-> ca, aliased |-> FALSE]
    ELSE IF Has(st, c)
    THEN [list |-> Get(st, c), cache |-> Put(ca, c, Get(st, c)), aliased |-> TRUE]
    ELSE [list |-> <<>>, cache |-> ca, aliased |-> FALSE]

\* update_wallet: update_item is an upsert; ClientError is logged and swallowed.
update_wallet(st, ca, c, ws, writeOk) ==
    IF writeOk
    THEN [store |-> Put(st, c, ws), cache |-> Put(ca, c, ws)]
    ELSE [store |-> st, cache |-> ca]

\* (variant: the watch is written as a new record of address, tag and block)
SetBlock_rebuilt(ws, a, new) ==
    IF FirstIdx(ws, a) = 0 THEN ws
    ELSE [ws EXCEPT ![FirstIdx(ws, a)] = Wallet(a, @.wallet_tag, new, FALSE)]

\* (variant: a watch that is not in the list is appended to it)
SetBlock_upsert(ws, a, new) ==
    IF FirstIdx(ws, a) = 0 THEN Append(ws, Wallet(a, "#t", new, FALSE))
    ELSE [ws EXCEPT ![FirstIdx(ws, a)].last_checked_block = new]

\* the for loop of update_last_checked_block: first watch with the address
SetBlock(ws, a, new) ==
    IF FirstIdx(ws, a) = 0 THEN ws
    ELSE [ws EXCEPT ![FirstIdx(ws, a)].last_checked_block = new]

\* WalletTracker.update_last_checked_block.  The list is mutated in place, so a
\* cached list changes before the Store write.
update_last_checked_block(st, ca, c, a, new, readOk, writeOk) ==
    LET g == get_tracked_wallets(st, ca, c, readOk)
        ws == SetBlock(g.list, a, new)
        ca1 == IF g.aliased THEN Put(g.cache, c, ws) ELSE g.cache
    IN update_wallet(st, ca1, c, ws, writeOk)

\* add_wallet.  resolved: the address is no ENS name, or resolve_ens returned
\* an address.  ret: the address, "none", or "raised" (tracked_wallets is
\* unbound on the put_item branch: UnboundLocalError).
add_wallet(st, ca, c, a, t, start, resolved, readOk, writeOk) ==
    LET new == Wallet(a, t, start, FALSE) IN
    IF ~resolved \/ ~readOk THEN [store |-> st, cache |-> ca, ret |-> "none"]
    ELSE IF Has(st, c)
    THEN IF writeOk
         THEN [store |-> Put(st, c, Append(Get(st, c), new)),
               cache |-> Put(ca, c, Append(Get(st, c), new)),
               ret |-> a]
         ELSE [store |-> st, cache |-> ca, ret |-> "none"]
    ELSE IF writeOk
         THEN [store |-> Put(st, c, <<new>>), cache |-> ca, ret |-> "raised"]
         ELSE [store |-> st, cache |-> ca, ret |-> "none"]

\* remove_wallet
remove_wallet(st, ca, c, a, readOk, writeOk) ==
    IF ~readOk THEN [store |-> st, cache |-> ca, ret |-> "none"]
    ELSE IF Has(st, c)
    THEN IF writeOk
         THEN [store |-> Put(st, c, FilterOut(Get(st, c), a)),
               cache |-> Put(ca, c, FilterOut(Get(st, c), a)),
               ret |-> "none"]
         ELSE [store |-> st, cache |-> ca, ret |-> "none"]
    ELSE [store |-> st, cache |-> ca, ret |-> "raised"]

\* (variant: the flag is set in every watch of the list)
SetPaused_all(ws, a, p) == [i \in 1..Len(ws) |-> [ws[i] EXCEPT !.paused = p]]

\* the for loop of handle_wallet_state: first watch with the address
SetPaused(ws, a, p) ==
    IF FirstIdx(ws, a) = 0 THEN ws
    ELSE [ws EXCEPT ![FirstIdx(ws, a)].paused = p]

\* (variant: the Store is written and the cache is left as it was)
handle_wallet_state_store_only(st, ca, c, a, p, readOk, writeOk) ==
    IF readOk /\ Has(st, c) /\ writeOk
    THEN [store |-> Put(st, c, SetPaused(Get(st, c), a, p)), cache |-> ca]
    ELSE [store |-> st, cache |-> ca]

\* handle_wallet_state
handle_wallet_state(st, ca, c, a, p, readOk, writeOk) ==
    IF readOk /\ Has(st, c) /\ writeOk
    THEN [store |-> Put(st, c, SetPaused(Get(st, c), a, p)),
          cache |-> Put(ca, c, SetPaused(Get(st, c), a, p))]
    ELSE [store |-> st, cache |-> ca]

\* get_all: the items of a scan, flattened in iteration order; [] on ClientError
RECURSIVE ItemWallets(_, _, _)
ItemWallets(c, ws, i) ==
    IF i > Len(ws) THEN <<>>
    ELSE <<[chat |-> c, w |-> ws[i]]>> \o ItemWallets(c, ws, i + 1)

RECURSIVE ScanFrom(_, _)
ScanFrom(st, c) ==
    IF c \notin Chats THEN <<>>
    ELSE (IF Has(st, c) THEN ItemWallets(c, Get(st, c), 1) ELSE <<>>)
         \o ScanFrom(st, c + 1)

get_all(st, scanOk) == IF scanOk THEN ScanFrom(st, 1) ELSE <<>>

\* ------------------------------------------------------------------------
\* Transaction source (Etherscan txlist, sort=asc)
\* ------------------------------------------------------------------------

\* indices of the transactions of address a with blockNumber >= startblock,
\* in ascending order
txlist(ch, a, startblock) ==
    LET n == Cardinality({i \in 1..Len(ch[a]) : ch[a][i] >= startblock})
    IN [j \in 1..n |-> Len(ch[a]) - n + j]

\* (variant: the block of the first transaction of the batch)
LastBlockOf_first(ch, a, txs) == ch[a][txs[1]]

\* int(transactions[-1]["blockNumber"])
LastBlockOf(ch, a, txs) == ch[a][txs[Len(txs)]]

\* n transactions in block b
Repeat(b, n) == [j \in 1..n |-> b]

RECURSIVE SumOver(_, _)
SumOver(f, S) ==
    IF S = {} THEN 0
    ELSE LET x == CHOOSE y \in S : TRUE IN f[x] + SumOver(f, S \ {x})

\* transactions on the chain
TxCount(ch) == SumOver([a \in Addrs |-> Len(ch[a])], Addrs)

\* ------------------------------------------------------------------------
\* Wallet loop: WalletTracker.monitor_wallet_transactions
\* ------------------------------------------------------------------------

\* `if is_paused: continue`
IsPaused(w) == w.paused

RECURSIVE SkipPaused(_)
SkipPaused(td) ==
    IF td = <<>> THEN <<>>
    ELSE IF IsPaused(Head(td).w) THEN SkipPaused(Tail(td))
    ELSE td

\* where the loop suspends (or dies) on the watch it arrives at:
\* int(wallet["last_checked_block"]) and its except clause
Arrive(w) ==
    IF w.last_checked_block = MISSING THEN "dead"      \* handler reads the key again: KeyError escapes
    ELSE IF w.last_checked_block = INVALID THEN "errsend"
    ELSE "fetch"

\* Runs the loop from the watches left in the tick to its next suspension
\* point.  A task that has ended ("dead", "cancelled") has no locals left.
\* A tick that is over is followed by the next scan at once.  A scan that
\* fails returns [] and is followed by the next scan at once, which succeeds
\* (the failure is transient); a scan that succeeds with no active watch is
\* followed by the same scan again, and so on ("spin": the loop never suspends
\* again).
Resume(st, td, scanOk) ==
    LET r == SkipPaused(td)
        first == SkipPaused(get_all(st, scanOk))
        q == IF r # <<>> THEN r
             ELSE IF first # <<>> THEN first
             ELSE SkipPaused(get_all(st, TRUE))
    IN IF q = <<>> THEN [wpc |-> "spin", todo |-> <<>>]
       ELSE IF Arrive(Head(q).w) = "dead" THEN [wpc |-> "dead", todo |-> <<>>]
       ELSE [wpc |-> Arrive(Head(q).w), todo |-> q]

\* (variant: any value that was assigned passes the test)
Truthy_assigned(v) == v # Unbound

\* `if new_last_checked_block:`
Truthy(v) == v > 0

\* The event loop runs other tasks only while the wallet loop is suspended;
\* the tasks are cancelled together at shutdown.
Free == wpc \notin {"spin", "cancelled"}

Suspended == wpc \in {"fetch", "errsend", "price", "send", "failsend", "sleep"}

Cur == Head(todo)

\* number of failures among the outcomes of a step (TRUE: the call succeeded)
Failed(ok) == IF ok THEN 0 ELSE 1

\* End of the current watch's iteration: new_last_checked_block holds v;
\* write it if truthy, then go on to the next suspension point.  f: failures
\* the step has met before this point.  An outcome flag is free only when its
\* call is made.
FinishWatch(v, f, scanOk, readOk, writeOk) ==
    LET c == Cur.chat
        a == Cur.w.wallet_address
        u == IF Truthy(v)
             THEN update_last_checked_block(store, cache, c, a, v, readOk, writeOk)
             ELSE [store |-> store, cache |-> cache]
        r == Resume(u.store, Tail(todo), scanOk)
    IN /\ (~Truthy(v) \/ Has(cache, c)) => readOk
       /\ ~Truthy(v) => writeOk
       /\ SkipPaused(Tail(todo)) # <<>> => scanOk
       /\ f + Failed(scanOk) + Failed(readOk) + Failed(writeOk) <= MaxFaults - faults
       /\ faults' = faults + f + Failed(scanOk) + Failed(readOk) + Failed(writeOk)
       /\ store' = u.store
       /\ cache' = u.cache
       /\ wpc' = r.wpc
       /\ todo' = r.todo
       /\ nlcb' = IF r.wpc = "dead" THEN Unbound ELSE v
       /\ batch' = <<>>
       /\ k' = 0
       /\ emitted' = IF wpc = "fetch" THEN 0 ELSE emitted

\* __check_wallet_transactions raised: `except Exception` logs, and the code
\* goes on to `if new_last_checked_block:` with whatever the variable holds.
CheckRaised(scanOk, readOk, writeOk) ==
    IF nlcb = Unbound
    THEN /\ scanOk /\ readOk /\ writeOk
         /\ faults < MaxFaults
         /\ faults' = faults + 1
         /\ wpc' = "dead"                       \* UnboundLocalError escapes the loop
         /\ todo' = <<>> /\ batch' = <<>> /\ k' = 0 /\ emitted' = 0
         /\ UNCHANGED <<store, cache, nlcb>>
    ELSE FinishWatch(nlcb, 1, scanOk, readOk, writeOk)

\* first run of the task: the first scan
WalletStart ==
    /\ wpc = "start"
    /\ \E scanOk \in BOOLEAN :
          LET r == Resume(store, <<>>, scanOk)
          IN /\ Failed(scanOk) <= MaxFaults - faults
             /\ faults' = faults + Failed(scanOk)
             /\ wpc' = r.wpc /\ todo' = r.todo
    /\ UNCHANGED <<store, cache, head, chain, nlcb, batch, k, emitted,
                   delivered, errNotified, rpc, cmds, reply, started, crashes, undelivered, pureVars>>
    /\ UNCHANGED gasVars

\* send_message of the "Invalid block" text returns or raises
WalletErrSendDone ==
    /\ wpc = "errsend"
    /\ \E ok, scanOk \in BOOLEAN :
          /\ Failed(ok) + Failed(scanOk) <= MaxFaults - faults
          /\ faults' = faults + Failed(ok) + Failed(scanOk)
          /\ IF ok
             THEN LET r == Resume(store, Tail(todo), scanOk)
                  IN /\ SkipPaused(Tail(todo)) # <<>> => scanOk
                     /\ wpc' = r.wpc /\ todo' = r.todo
                     /\ nlcb' = IF r.wpc = "dead" THEN Unbound ELSE nlcb
                     /\ errNotified' = errNotified \cup {<<Cur.chat, Cur.w.wallet_address>>}
             ELSE /\ scanOk
                  /\ wpc' = "dead"
                  /\ todo' = <<>> /\ nlcb' = Unbound
                  /\ UNCHANGED errNotified
    /\ UNCHANGED <<store, cache, head, chain, batch, k, emitted, delivered, rpc, cmds, reply, started, crashes, undelivered, pureVars>>
    /\ UNCHANGED gasVars

\* session.get of the txlist request returns or raises
WalletFetchDone ==
    /\ wpc = "fetch"
    /\ \E outcome \in {"ok", "non200", "raise"}, scanOk, readOk, writeOk \in BOOLEAN :
          LET txs == txlist(chain, Cur.w.wallet_address, Cur.w.last_checked_block + 1)
          IN CASE outcome = "ok" /\ txs # <<>> ->
                    /\ scanOk /\ readOk /\ writeOk
                    /\ batch' = txs /\ k' = 1 /\ emitted' = 0 /\ wpc' = "price"
                    /\ UNCHANGED <<store, cache, todo, nlcb, faults>>
               [] outcome = "ok" /\ txs = <<>> ->
                    FinishWatch(None, 0, scanOk, readOk, writeOk)
               [] outcome = "non200" ->
                    FinishWatch(None, 1, scanOk, readOk, writeOk)
               [] outcome = "raise" ->
                    CheckRaised(scanOk, readOk, writeOk)
    /\ UNCHANGED <<head, chain, delivered, errNotified, rpc, cmds, reply, started, crashes, undelivered, pureVars>>
    /\ UNCHANGED gasVars

\* __process_transaction: the price request returns, the tag is read through
\* get_tracked_wallets, the message is built; or something in it raises
WalletPriceDone ==
    /\ wpc = "price"
    /\ \E ok, scanOk, readOk, writeOk \in BOOLEAN :
          IF ok
          THEN /\ scanOk /\ writeOk
               /\ Has(cache, Cur.chat) => readOk
               /\ Failed(readOk) <= MaxFaults - faults
               /\ faults' = faults + Failed(readOk)
               /\ cache' = get_tracked_wallets(store, cache, Cur.chat, readOk).cache
               /\ wpc' = "send"
               /\ UNCHANGED <<store, todo, nlcb, batch, k, emitted>>
          ELSE CheckRaised(scanOk, readOk, writeOk)
    /\ UNCHANGED <<head, chain, delivered, errNotified, rpc, cmds, reply, started, crashes, undelivered, pureVars>>
    /\ UNCHANGED gasVars

\* __send_transaction_details: send_message of the transaction returns or raises
WalletSendDone ==
    /\ wpc = "send"
    /\ \E ok \in BOOLEAN :
          /\ Failed(ok) <= MaxFaults - faults
          /\ faults' = faults + Failed(ok)
          /\ IF ok
             THEN /\ delivered' = [delivered EXCEPT ![<<Cur.chat, Cur.w.wallet_address>>] =
                                       @ \cup {batch[k]}]
                  /\ wpc' = "sleep"
                  /\ UNCHANGED undelivered
             ELSE /\ wpc' = "failsend"
                  /\ undelivered' = undelivered \cup {<<Cur.chat, Cur.w.wallet_address, batch[k]>>}
                  /\ UNCHANGED delivered
    /\ emitted' = emitted + 1
    /\ UNCHANGED <<store, cache, head, chain, todo, nlcb, batch, k, errNotified, rpc, cmds, reply, started, crashes, pureVars>>
    /\ UNCHANGED gasVars

\* the except clause of __send_transaction_details: send_message of
\* "*Failed to parse the transaction*" returns or raises
WalletFailSendDone ==
    /\ wpc = "failsend"
    /\ \E ok, scanOk, readOk, writeOk \in BOOLEAN :
          IF ok
          THEN /\ scanOk /\ readOk /\ writeOk
               /\ wpc' = "sleep"
               /\ UNCHANGED <<store, cache, todo, nlcb, batch, k, emitted, faults>>
          ELSE CheckRaised(scanOk, readOk, writeOk)
    /\ UNCHANGED <<head, chain, delivered, errNotified, rpc, cmds, reply, started, crashes, undelivered, pureVars>>
    /\ UNCHANGED gasVars

\* the delivery to the chat is failing: after send_message of the transaction
\* raised, send_message of "*Failed to parse the transaction*" raises too, out
\* of __send_transaction_details and __check_wallet_transactions (one failure
\* of the environment, counted when the first send raised)
WalletFailSendRaised ==
    /\ wpc = "failsend"
    /\ IF nlcb = Unbound
       THEN /\ wpc' = "dead"
            /\ todo' = <<>> /\ batch' = <<>> /\ k' = 0 /\ emitted' = 0
            /\ UNCHANGED <<store, cache, nlcb, faults>>
       ELSE \E scanOk, readOk, writeOk \in BOOLEAN :
               FinishWatch(nlcb, 0, scanOk, readOk, writeOk)
    /\ UNCHANGED <<head, chain, delivered, errNotified, rpc, cmds, reply, started, crashes, undelivered, pureVars>>
    /\ UNCHANGED gasVars

\* asyncio.sleep(sleep_time) returns: next transaction, or the check returns
\* new_last_checked_block and the monitor writes it
WalletSleepDone ==
    /\ wpc = "sleep"
    /\ \E scanOk, readOk, writeOk \in BOOLEAN :
          IF k < Len(batch)
          THEN /\ scanOk /\ readOk /\ writeOk
               /\ k' = k + 1 /\ wpc' = "price"
               /\ UNCHANGED <<store, cache, todo, nlcb, batch, emitted, faults>>
          ELSE FinishWatch(LastBlockOf(chain, Cur.w.wallet_address, batch), 0,
                           scanOk, readOk, writeOk)
    /\ UNCHANGED <<head, chain, delivered, errNotified, rpc, cmds, reply, started, crashes, undelivered, pureVars>>
    /\ UNCHANGED gasVars

\* the reads of the Store are failing: get_item raised in the tag lookup of
\* __process_transaction, so nothing was cached for the chat, and it raises
\* again in update_last_checked_block, whose update_item goes through (one
\* failure of the environment, counted when the first read raised)
WalletSleepDoneReadFailed ==
    /\ wpc = "sleep"
    /\ k = Len(batch)
    /\ ~Has(cache, Cur.chat)
    /\ Has(store, Cur.chat)
    /\ LET v == LastBlockOf(chain, Cur.w.wallet_address, batch)
           u == update_last_checked_block(store, cache, Cur.chat, Cur.w.wallet_address,
                                          v, FALSE, TRUE)
           r == Resume(u.store, Tail(todo), TRUE)
       IN /\ store' = u.store
          /\ cache' = u.cache
          /\ wpc' = r.wpc
          /\ todo' = r.todo
          /\ nlcb' = IF r.wpc = "dead" THEN Unbound ELSE v
          /\ batch' = <<>>
          /\ k' = 0
    /\ UNCHANGED <<head, chain, emitted, delivered, errNotified, rpc, faults, cmds, reply, started, crashes, undelivered, pureVars>>
    /\ UNCHANGED gasVars

\* task.cancel(): CancelledError is raised at the suspension point
WalletCancel ==
    /\ Suspended
    /\ wpc' = "cancelled"
    /\ todo' = <<>> /\ nlcb' = Unbound /\ batch' = <<>> /\ k' = 0 /\ emitted' = 0
    /\ UNCHANGED <<store, cache, head, chain, delivered, errNotified,
                   rpc, faults, cmds, reply, started, crashes, undelivered, pureVars>>
    /\ UNCHANGED gasVars

\* ------------------------------------------------------------------------
\* Cache refresh loop: WalletTrackerStorage.update_db_cache, one iteration
\* ------------------------------------------------------------------------
RefreshedCache(st, ca) ==
    [c \in Chats |-> IF Has(st, c) THEN [has |-> TRUE, ws |-> Get(st, c)] ELSE ca[c]]

CacheRefresh ==
    /\ Free
    /\ rpc = "run"
    /\ \E scanOk \in BOOLEAN :
          /\ Failed(scanOk) <= MaxFaults - faults
          /\ faults' = faults + Failed(scanOk)
          /\ cache' = IF scanOk THEN RefreshedCache(store, cache) ELSE cache
    /\ UNCHANGED <<store, head, chain, wpc, todo, nlcb, batch, k, emitted,
                   delivered, errNotified, rpc, cmds, reply, started, crashes, undelivered, pureVars>>
    /\ UNCHANGED gasVars

\* ------------------------------------------------------------------------
\* Registry commands (handlers of WalletTracker); each runs to its reply
\* without suspending
\* ------------------------------------------------------------------------

\* what the subscriber typed: a valid address or a name that resolves, an
\* invalid address, an invalid tag, a valid name that does not resolve
Inputs == {"valid", "invalid_wallet", "invalid_tag", "unresolvable"}

\* (variant: nothing is validated)
Accepted_all(input, blockOk) == TRUE

\* __is_valid_wallet, __is_valid_tag and `if current_block:` let the add through
Accepted(input, blockOk) == input \in {"valid", "unresolvable"} /\ blockOk

NoReply == [chat |-> 0, text |-> "", addr |-> ""]

Reply(c, text, a) == [chat |-> c, text |-> text, addr |-> a]

\* the reply_text of received_wallet ("error": add_wallet raised, no reply)
AddReply(c, a, input, blockOk, ret) ==
    IF input \in {"invalid_wallet", "invalid_tag"} THEN Reply(c, input, "")
    ELSE IF ~blockOk THEN Reply(c, "no_block", "")
    ELSE IF ret = "none" THEN Reply(c, "failed", "")
    ELSE IF ret = "raised" THEN Reply(c, "error", "")
    ELSE Reply(c, "tracking", a)

\* received_wallet: validation, current block, add_wallet, reply
received_wallet(c, a, t, input, blockOk, readOk, writeOk) ==
    /\ Free
    /\ cmds < MaxCmds
    /\ Len(Get(store, c)) < MaxWallets
    /\ LET called == Accepted(input, blockOk)
           u == IF called
                THEN add_wallet(store, cache, c, a, t, head, input # "unresolvable", readOk, writeOk)
                ELSE [store |-> store, cache |-> cache, ret |-> "none"]
       IN /\ input \in {"invalid_wallet", "invalid_tag"} => blockOk
          /\ ~(called /\ input # "unresolvable") => readOk
          /\ ~(called /\ input # "unresolvable" /\ readOk) => writeOk
          /\ Failed(blockOk) + Failed(readOk) + Failed(writeOk) <= MaxFaults - faults
          /\ faults' = faults + Failed(blockOk) + Failed(readOk) + Failed(writeOk)
          /\ store' = u.store /\ cache' = u.cache
          /\ reply' = AddReply(c, a, input, blockOk, u.ret)
          /\ started' = IF u.store # store /\ ~HasAddr(Get(store, c), a)
                         THEN [started EXCEPT ![<<c, a>>] = head]
                         ELSE started
    /\ cmds' = cmds + 1
    /\ UNCHANGED <<head, chain, wpc, todo, nlcb, batch, k, emitted,
                   delivered, errNotified, rpc, crashes, undelivered, pureVars>>
    /\ UNCHANGED gasVars

\* received_wallet_untrack: membership test on get_tracked_wallets, remove_wallet
received_wallet_untrack(c, a) ==
    /\ Free
    /\ cmds < MaxCmds
    /\ \E readOk1, readOk, writeOk \in BOOLEAN :
          LET g == get_tracked_wallets(store, cache, c, readOk1)
              u == IF HasAddr(g.list, a)
                   THEN remove_wallet(store, g.cache, c, a, readOk, writeOk)
                   ELSE [store |-> store, cache |-> g.cache, ret |-> "none"]
          IN /\ Has(cache, c) => readOk1
             /\ ~HasAddr(g.list, a) => readOk
             /\ ~(HasAddr(g.list, a) /\ readOk /\ Has(store, c)) => writeOk
             /\ Failed(readOk1) + Failed(readOk) + Failed(writeOk) <= MaxFaults - faults
             /\ faults' = faults + Failed(readOk1) + Failed(readOk) + Failed(writeOk)
             /\ store' = u.store /\ cache' = u.cache
             /\ <<u.store, u.cache>> # <<store, cache>>
             /\ reply' = IF ~HasAddr(g.list, a) THEN Reply(c, "not_tracked", a)
                         ELSE IF u.ret = "raised" THEN Reply(c, "error", "")
                         ELSE Reply(c, "untracked", a)
             /\ started' = IF HasAddr(Get(u.store, c), a)
                            THEN started
                            ELSE [started EXCEPT ![<<c, a>>] = 0]
    /\ cmds' = cmds + 1
    /\ UNCHANGED <<head, chain, wpc, todo, nlcb, batch, k, emitted,
                   delivered, errNotified, rpc, crashes, undelivered, pureVars>>
    /\ UNCHANGED gasVars

\* received_wallet_to_pause (p = TRUE) and received_wallet_to_resume (p = FALSE)
received_wallet_state(c, a, p) ==
    /\ Free
    /\ cmds < MaxCmds
    /\ \E readOk1, readOk, writeOk \in BOOLEAN :
          LET g == get_tracked_wallets(store, cache, c, readOk1)
              u == IF HasAddr(g.list, a)
                   THEN handle_wallet_state(store, g.cache, c, a, p, readOk, writeOk)
                   ELSE [store |-> store, cache |-> g.cache]
          IN /\ Has(cache, c) => readOk1
             /\ ~HasAddr(g.list, a) => readOk
             /\ ~(HasAddr(g.list, a) /\ readOk /\ Has(store, c)) => writeOk
             /\ Failed(readOk1) + Failed(readOk) + Failed(writeOk) <= MaxFaults - faults
             /\ faults' = faults + Failed(readOk1) + Failed(readOk) + Failed(writeOk)
             /\ store' = u.store /\ cache' = u.cache
             /\ <<u.store, u.cache>> # <<store, cache>>
             /\ reply' = IF ~HasAddr(g.list, a) THEN Reply(c, "not_tracked", a)
                         ELSE Reply(c, IF p THEN "paused" ELSE "resumed", a)
    /\ cmds' = cmds + 1
    /\ UNCHANGED <<head, chain, wpc, todo, nlcb, batch, k, emitted,
                   delivered, errNotified, rpc, started, crashes, undelivered, pureVars>>
    /\ UNCHANGED gasVars

received_wallet_to_pause == \E c \in Chats, a \in Addrs : received_wallet_state(c, a, TRUE)

received_wallet_to_resume == \E c \in Chats, a \in Addrs : received_wallet_state(c, a, FALSE)

\* no /list has been answered
NotListed == [chat |-> 0, list |-> <<>>]

\* list_tracked_wallets: the handler of /list reads the list through
\* get_tracked_wallets and replies with it
list_tracked_wallets(c) ==
    /\ Free
    /\ listed = NotListed
    /\ \E readOk \in BOOLEAN :
          LET g == get_tracked_wallets(store, cache, c, readOk)
          IN /\ Has(cache, c) => readOk
             /\ Failed(readOk) <= MaxFaults - faults
             /\ faults' = faults + Failed(readOk)
             /\ cache' = g.cache
             /\ listed' = [chat |-> c, list |-> g.list]
    /\ UNCHANGED <<store, head, chain, wpc, todo, nlcb, batch, k, emitted,
                   delivered, errNotified, rpc, cmds, reply, started, crashes, undelivered,
                   paceVars, oracleVars, thresholdVars>>
    /\ UNCHANGED gasVars

ListCmd == \E c \in Chats : list_tracked_wallets(c)

\* most pause and resume commands in a row
MaxStateCmds == 3

\* received_wallet_to_pause / received_wallet_to_resume with nothing failing,
\* any number of times in a row, whether or not the command changes anything
HandleWalletState(c, a, p) ==
    /\ Free
    /\ cmds < MaxStateCmds
    /\ LET g == get_tracked_wallets(store, cache, c, TRUE)
           u == IF HasAddr(g.list, a)
                THEN handle_wallet_state(store, g.cache, c, a, p, TRUE, TRUE)
                ELSE [store |-> store, cache |-> g.cache]
       IN /\ store' = u.store /\ cache' = u.cache
          /\ reply' = IF ~HasAddr(g.list, a) THEN Reply(c, "not_tracked", a)
                      ELSE Reply(c, IF p THEN "paused" ELSE "resumed", a)
    /\ cmds' = cmds + 1
    /\ UNCHANGED <<head, chain, wpc, todo, nlcb, batch, k, emitted,
                   delivered, errNotified, rpc, faults, started, crashes, undelivered, pureVars>>
    /\ UNCHANGED gasVars

PauseCmd == \E c \in Chats, a \in Addrs : HandleWalletState(c, a, TRUE)

ResumeCmd == \E c \in Chats, a \in Addrs : HandleWalletState(c, a, FALSE)

\* an add that changes the Store or the cache
AddCmd ==
    \E c \in Chats, a \in Addrs, t \in Tags, readOk, writeOk \in BOOLEAN :
        /\ received_wallet(c, a, t, "valid", TRUE, readOk, writeOk)
        /\ <<store', cache'>> # <<store, cache>>

\* an add of something else than a valid target at a known block
AddRejectedCmd ==
    \E c \in Chats, a \in Addrs, t \in Tags, input \in Inputs, blockOk \in BOOLEAN :
        /\ ~(input = "valid" /\ blockOk)
        /\ received_wallet(c, a, t, input, blockOk, TRUE, TRUE)

RemoveCmd == \E c \in Chats, a \in Addrs : received_wallet_untrack(c, a)

\* ------------------------------------------------------------------------
\* The chain: a new block with some transactions of the watched addresses
\* ------------------------------------------------------------------------
NewBlock ==
    /\ head < MaxBlock
    /\ \E n \in [Addrs -> 0..MaxTxPerBlock] :
          /\ TxCount(chain) + SumOver(n, Addrs) <= MaxTx
          /\ chain' = [a \in Addrs |-> chain[a] \o Repeat(head + 1, n[a])]
    /\ head' = head + 1
    /\ UNCHANGED <<store, cache, wpc, todo, nlcb, batch, k, emitted,
                   delivered, errNotified, rpc, faults, cmds, reply, started, crashes, undelivered, pureVars>>
    /\ UNCHANGED gasVars

\* ------------------------------------------------------------------------
\* Gas loop: GasTracker.monitor_gas_prices
\* ------------------------------------------------------------------------

\* prices the oracle reports: 0 and the values around update_threshold
GasLevels == {0} \cup (update_threshold..MaxGas)

\* a reading <<SafeGasPrice, ProposeGasPrice, FastGasPrice>>
GasReadings ==
    {r \in GasLevels \X GasLevels \X GasLevels : r[1] <= r[2] /\ r[2] <= r[3]}

\* last_sent_prices has no entry for the chat
NoPrices == [has |-> FALSE, r |-> <<0, 0, 0>>]

\* last_sent_prices.get(chat_id, {"low": 0, "average": 0, "fast": 0})
LastPrices(lsp, c) == IF lsp[c].has THEN lsp[c].r ELSE <<0, 0, 0>>

\* (variant: the boundary is inclusive)
Changed_inclusive(new, old) == Abs(new - old) >= update_threshold

\* one comparison of the `if` of monitor_gas_prices
Changed(new, old) == Abs(new - old) > update_threshold

\* "the price has changed significantly"
Significant(new, lastp) ==
    \/ Changed(new[1], lastp[1])
    \/ Changed(new[2], lastp[2])
    \/ Changed(new[3], lastp[3])

\* (variant: only the low price of the snapshot is replaced)
SetLastSent_low(lsp, c, new) ==
    [lsp EXCEPT ![c] = [has |-> TRUE, r |-> <<new[1], LastPrices(lsp, c)[2], LastPrices(lsp, c)[3]>>]]

\* self.last_sent_prices[chat_id] = {"low": ..., "average": ..., "fast": ...}
SetLastSent(lsp, c, new) == [lsp EXCEPT ![c] = [has |-> TRUE, r |-> new]]

\* Runs `for chat_id in self.subscribers` from the subscribers not yet visited
\* (ascending: the slot order of the set) up to the first one that is sent a
\* message, where the loop suspends.
RECURSIVE GasIterate(_, _, _, _)
GasIterate(rest, new, lsp, seen) ==
    IF rest = {}
    THEN [gpc |-> "sleep", cur |-> 0, lsp |-> lsp, seen |-> seen]
    ELSE LET c == CHOOSE x \in rest : \A y \in rest : x <= y
         IN IF Significant(new, LastPrices(lsp, c))
            THEN [gpc |-> "send", cur |-> c,
                  lsp |-> SetLastSent(lsp, c, new),
                  seen |-> seen \cup {c}]
            ELSE GasIterate(rest \ {c}, new, lsp, seen \cup {c})

\* (variant: a response that is not usable is read as a reading of zeros)
GasUnavailable_zeros(subs, lsp) == GasIterate(subs, <<0, 0, 0>>, lsp, {})

\* a non-200 response, or a status other than "1": the for loop is not entered
GasUnavailable(subs, lsp) == [gpc |-> "sleep", cur |-> 0, lsp |-> lsp, seen |-> {}]

GasStart ==
    /\ gpc = "start"
    /\ gpc' = "fetch"
    /\ UNCHANGED <<subscribers, last_sent_prices, gasNew, gasCur, gasSize, gasSeen, gasSent>>
    /\ UNCHANGED walletVars

\* session.get of the gas oracle returns or raises
GasFetchDone ==
    /\ gpc = "fetch"
    /\ \E outcome \in {"ok", "unavailable", "raise"}, new \in GasReadings :
          CASE outcome = "ok" ->
                  LET it == GasIterate(subscribers, new, last_sent_prices, {})
                  IN /\ gasNew' = new
                     /\ gpc' = it.gpc
                     /\ gasCur' = it.cur
                     /\ last_sent_prices' = it.lsp
                     /\ gasSeen' = it.seen
                     /\ gasSent' = IF it.cur = 0 THEN {} ELSE {it.cur}
                     /\ gasSize' = Cardinality(subscribers)
                     /\ UNCHANGED faults
            [] outcome = "unavailable" ->
                  LET it == GasUnavailable(subscribers, last_sent_prices)
                  IN /\ new = <<0, 0, 0>>
                     /\ faults < MaxFaults
                     /\ faults' = faults + 1
                     /\ gpc' = it.gpc
                     /\ gasCur' = it.cur
                     /\ last_sent_prices' = it.lsp
                     /\ gasSeen' = it.seen
                     /\ gasSent' = IF it.cur = 0 THEN {} ELSE {it.cur}
                     /\ UNCHANGED <<gasNew, gasSize>>
            [] outcome = "raise" ->
                  /\ new = <<0, 0, 0>>
                  /\ faults < MaxFaults
                  /\ faults' = faults + 1
                  /\ gpc' = "dead"
                  /\ gasSeen' = {} /\ gasSent' = {} /\ gasCur' = 0
                  /\ UNCHANGED <<last_sent_prices, gasNew, gasSize>>
    /\ UNCHANGED subscribers
    /\ UNCHANGED <<store, cache, head, chain, wpc, todo, nlcb, batch, k, emitted,
                   delivered, errNotified, rpc, cmds, reply, started, crashes, undelivered, pureVars>>

\* __send_gas_price_message: send_message returns, raises aiohttp.ClientError
\* (logged) or raises a Telegram error (escapes the loop); then the for loop
\* asks the set iterator for the next subscriber
GasSendDone ==
    /\ gpc = "send"
    /\ \E outcome \in {"ok", "client_error", "telegram_error"} :
          /\ Failed(outcome = "ok") <= MaxFaults - faults
          /\ faults' = faults + Failed(outcome = "ok")
          /\ IF outcome = "telegram_error" \/ Cardinality(subscribers) # gasSize
             THEN /\ gpc' = "dead"      \* RuntimeError: Set changed size during iteration
                  /\ gasCur' = 0
                  /\ UNCHANGED <<last_sent_prices, gasSeen, gasSent>>
             ELSE LET it == GasIterate({c \in subscribers : c > gasCur}, gasNew,
                                       last_sent_prices, gasSeen)
                  IN /\ gpc' = it.gpc
                     /\ gasCur' = it.cur
                     /\ last_sent_prices' = it.lsp
                     /\ gasSeen' = it.seen
                     /\ gasSent' = IF it.cur = 0 THEN gasSent ELSE gasSent \cup {it.cur}
    /\ UNCHANGED <<subscribers, gasNew, gasSize>>
    /\ UNCHANGED <<store, cache, head, chain, wpc, todo, nlcb, batch, k, emitted,
                   delivered, errNotified, rpc, cmds, reply, started, crashes, undelivered, pureVars>>

\* asyncio.sleep(60) returns: the next tick's request
GasSleepDone ==
    /\ gpc = "sleep"
    /\ gpc' = "fetch"
    /\ gasSeen' = {} /\ gasSent' = {}
    /\ UNCHANGED <<subscribers, last_sent_prices, gasNew, gasCur, gasSize>>
    /\ UNCHANGED walletVars

GasCancel ==
    /\ gpc \in {"fetch", "send", "sleep"}
    /\ gpc' = "cancelled"
    /\ gasCur' = 0
    /\ UNCHANGED <<subscribers, last_sent_prices, gasNew, gasSize, gasSeen, gasSent>>
    /\ UNCHANGED walletVars

\* GasTracker.subscribe / GasTracker.unsubscribe
subscribe(c) ==
    /\ gpc # "cancelled"
    /\ subscribers' = subscribers \cup {c}
    /\ UNCHANGED <<gpc, last_sent_prices, gasNew, gasCur, gasSize, gasSeen, gasSent>>
    /\ UNCHANGED walletVars

unsubscribe(c) ==
    /\ gpc # "cancelled"
    /\ subscribers' = subscribers \ {c}
    /\ UNCHANGED <<gpc, last_sent_prices, gasNew, gasCur, gasSize, gasSeen, gasSent>>
    /\ UNCHANGED walletVars

SubscribeCmd == \E c \in Chats : subscribe(c)

UnsubscribeCmd == \E c \in Chats : unsubscribe(c)

\* ------------------------------------------------------------------------
\* Alert thresholds: GasTracker.received_thresholds and the lookup of the gas
\* loop
\* ------------------------------------------------------------------------

\* highest number a subscriber types in a request
MaxThreshold == 3

\* a word of the message: a number int() accepts, or anything else
Word(num, val) == [num |-> num, val |-> val]

Words == {Word(TRUE, v) : v \in 0..MaxThreshold} \cup {Word(FALSE, 0)}

\* update.message.text.split(): up to three words; a message without text
\* (text is None) has has_text = FALSE
Texts ==
    {<<>>} \cup {<<x>> : x \in Words} \cup (Words \X Words) \cup (Words \X Words \X Words)

Requests ==
    {[has_text |-> TRUE, words |-> t] : t \in Texts} \cup {[has_text |-> FALSE, words |-> <<>>]}

NoRequest == [chat |-> 0, has_text |-> FALSE, words |-> <<>>]

\* user_thresholds has no entry for the chat
NoThresholds == [has |-> FALSE, green |-> 0, yellow |-> 0]

\* `green_threshold, yellow_threshold = map(int, thresholds)`: AttributeError
\* on a message without text, ValueError unless there are exactly two words
\* and int() accepts both
Parse(req) ==
    IF ~req.has_text THEN [ok |-> FALSE, green |-> 0, yellow |-> 0]
    ELSE IF Len(req.words) # 2 THEN [ok |-> FALSE, green |-> 0, yellow |-> 0]
    ELSE IF ~req.words[1].num \/ ~req.words[2].num THEN [ok |-> FALSE, green |-> 0, yellow |-> 0]
    ELSE [ok |-> TRUE, green |-> req.words[1].val, yellow |-> req.words[2].val]

\* (variant: equal thresholds pass)
ValidThresholds_equal(green, yellow) == 0 < green /\ green <= yellow

\* `if 0 < green_threshold < yellow_threshold:`
ValidThresholds(green, yellow) == 0 < green /\ green < yellow

\* self.user_thresholds.get(chat_id, {"green": 30, "yellow": 35})
current_thresholds(ut, c) ==
    IF ut[c].has THEN [green |-> ut[c].green, yellow |-> ut[c].yellow]
    ELSE [green |-> 30, yellow |-> 35]

\* received_thresholds
received_thresholds(c, req) ==
    /\ LET p == Parse(req)
       IN user_thresholds' =
              IF p.ok /\ ValidThresholds(p.green, p.yellow)
              THEN [user_thresholds EXCEPT ![c] = [has |-> TRUE, green |-> p.green, yellow |-> p.yellow]]
              ELSE user_thresholds
    /\ request' = [chat |-> c, has_text |-> req.has_text, words |-> req.words]
    /\ UNCHANGED <<paceVars, oracleVars, listVars>>
    /\ UNCHANGED <<store, cache, head, chain, wpc, todo, nlcb, batch, k, emitted,
                   delivered, errNotified, rpc, faults, cmds, reply, crashes, started, undelivered>>
    /\ UNCHANGED gasVars

ThresholdsCmd == \E c \in Chats, req \in Requests : received_thresholds(c, req)

\* ------------------------------------------------------------------------
\* Price oracle failover: WalletTracker.__get_eth_price_usd and its use in
\* __process_transaction
\* ------------------------------------------------------------------------
MaxPrice == 3

\* what a provider can answer: a price; a status other than 200;
\* ClientSSLError or ClientOSError from session.get; any other exception of
\* the request (a timeout, a disconnect); a 200 body without the price
Answer(kind, usd) == [kind |-> kind, usd |-> usd]

Answers ==
    {Answer("ok", p) : p \in 1..MaxPrice}
        \cup {Answer(x, 0) : x \in {"non200", "ssl_error", "os_error", "other_error", "bad_body"}}

\* the two entries of `providers`
ProviderAnswers == Answers \X Answers

NotCalled == [called |-> FALSE, raised |-> FALSE, usd |-> None]

\* __get_eth_price_usd: `for name, url in providers`; only ClientSSLError and
\* ClientOSError are caught
RECURSIVE get_eth_price_usd(_)
get_eth_price_usd(as) ==
    IF as = <<>> THEN [called |-> TRUE, raised |-> FALSE, usd |-> None]
    ELSE IF Head(as).kind = "ok" THEN [called |-> TRUE, raised |-> FALSE, usd |-> Head(as).usd]
    ELSE IF Head(as).kind \in {"non200", "ssl_error", "os_error"}
    THEN get_eth_price_usd(Tail(as))
    ELSE [called |-> TRUE, raised |-> TRUE, usd |-> None]

\* __process_transaction awaits __get_eth_price_usd
GetEthPriceUsd ==
    /\ ~eth_price.called
    /\ eth_price' = get_eth_price_usd(answers)
    /\ UNCHANGED <<answers, message>>
    /\ UNCHANGED <<paceVars, listVars, thresholdVars>>
    /\ UNCHANGED <<store, cache, head, chain, wpc, todo, nlcb, batch, k, emitted,
                   delivered, errNotified, rpc, faults, cmds, reply, crashes, started, undelivered>>
    /\ UNCHANGED gasVars

\* __process_transaction: `if eth_price_usd:` and the message text
ProcessTransaction ==
    /\ eth_price.called
    /\ message = "none"
    /\ message' = IF eth_price.raised THEN "raised"
                  ELSE IF eth_price.usd > 0 THEN "with_usd"
                  ELSE "without_usd"
    /\ UNCHANGED <<answers, eth_price>>
    /\ UNCHANGED <<paceVars, listVars, thresholdVars>>
    /\ UNCHANGED <<store, cache, head, chain, wpc, todo, nlcb, batch, k, emitted,
                   delivered, errNotified, rpc, faults, cmds, reply, crashes, started, undelivered>>
    /\ UNCHANGED gasVars

\* ------------------------------------------------------------------------
\* Initial states: the table as the process finds it, nothing cached, no task
\* has run yet
\* ------------------------------------------------------------------------
Table(ws1, ws2) ==
    [c \in Chats |-> IF c = 1 THEN ws1 ELSE ws2]

Rec(ws) == [has |-> TRUE, ws |-> ws]

InitStores ==
    { Table(Absent, Absent),
      Table(Rec(<<Wallet("a", "#t", 1, FALSE)>>), Rec(<<Wallet("b", "#t", 1, FALSE)>>)),
      Table(Rec(<<Wallet("a", "#t", INVALID, FALSE), Wallet("b", "#t", 1, FALSE)>>), Absent),
      Table(Rec(<<Wallet("a", "#t", MISSING, FALSE)>>), Rec(<<Wallet("b", "#t", 1, FALSE)>>)) }

\* the last_checked_block each watch of a table was added with: a table the
\* process starts on is one whose watches have just been added
StartedIn(st) ==
    [p \in Chats \X Addrs |->
        IF HasAddr(Get(st, p[1]), p[2])
        THEN LET b == Get(st, p[1])[FirstIdx(Get(st, p[1]), p[2])].last_checked_block
             IN IF b >= 0 THEN b ELSE 0
        ELSE 0]

InitGas ==
    /\ gpc = "start"
    /\ subscribers = {}
    /\ last_sent_prices = [c \in Chats |-> NoPrices]
    /\ gasNew = <<0, 0, 0>>
    /\ gasCur = 0
    /\ gasSize = 0
    /\ gasSeen = {}
    /\ gasSent = {}

\* the tasks and the registry before anything has run
InitLoops ==
    /\ cache = [c \in Chats |-> Absent]
    /\ head = 1
    /\ chain = [a \in Addrs |-> <<>>]
    /\ wpc = "start"
    /\ todo = <<>>
    /\ nlcb = Unbound
    /\ batch = <<>>
    /\ k = 0
    /\ emitted = 0
    /\ delivered = [p \in Chats \X Addrs |-> {}]
    /\ errNotified = {}
    /\ rpc = "run"
    /\ faults = 0
    /\ cmds = 0
    /\ reply = NoReply
    /\ crashes = 0
    /\ undelivered = {}
    /\ InitGas

InitPace ==
    /\ total_transactions = 0
    /\ processing_time = 0
    /\ max_sleep = max_sleep_time
    /\ sleep_time = None

InitOracle ==
    /\ answers = <<>>
    /\ eth_price = NotCalled
    /\ message = "none"

InitList == listed = NotListed

InitThresholds ==
    /\ user_thresholds = [c \in Chats |-> NoThresholds]
    /\ request = NoRequest

InitPure == InitPace /\ InitOracle /\ InitList /\ InitThresholds

Init ==
    /\ store \in InitStores
    /\ started = StartedIn(store)
    /\ InitLoops
    /\ InitPure

Next ==
    \/ WalletStart
    \/ WalletErrSendDone
    \/ WalletFetchDone
    \/ WalletPriceDone
    \/ WalletSendDone
    \/ WalletFailSendDone
    \/ WalletSleepDone
    \/ WalletCancel
    \/ CacheRefresh
    \/ AddCmd
    \/ RemoveCmd
    \/ received_wallet_to_pause
    \/ received_wallet_to_resume
    \/ NewBlock

Spec == Init /\ [][Next]_vars

\* ------------------------------------------------------------------------
\* The process is killed and started again: the table survives, the cache
\* and the tasks' locals do not
\* ------------------------------------------------------------------------
Restart ==
    /\ crashes < MaxCrashes
    /\ crashes' = crashes + 1
    /\ cache' = [c \in Chats |-> Absent]
    /\ wpc' = "start"
    /\ todo' = <<>> /\ nlcb' = Unbound /\ batch' = <<>> /\ k' = 0 /\ emitted' = 0
    /\ UNCHANGED <<store, head, chain, delivered, errNotified, rpc, faults, cmds, reply, started, undelivered, pureVars>>
    /\ UNCHANGED gasVars

CrashInit ==
    /\ Init
    /\ store = Table(Rec(<<Wallet("a", "#t", 1, FALSE)>>), Rec(<<Wallet("b", "#t", 1, FALSE)>>))

\* the wallet loop on a table of valid watches, with restarts, no registry command
CrashNext ==
    \/ WalletStart
    \/ WalletFetchDone
    \/ WalletPriceDone
    \/ WalletSendDone
    \/ WalletFailSendDone
    \/ WalletSleepDone
    \/ WalletCancel
    \/ CacheRefresh
    \/ NewBlock
    \/ Restart

CrashSpec == CrashInit /\ [][CrashNext]_vars

\* the gas loop and its commands
GasNext ==
    \/ GasStart
    \/ GasFetchDone
    \/ GasSendDone
    \/ GasSleepDone
    \/ GasCancel
    \/ SubscribeCmd
    \/ UnsubscribeCmd

GasInit ==
    /\ Init
    /\ store = Table(Absent, Absent)

GasSpec == GasInit /\ [][GasNext]_vars

\* ------------------------------------------------------------------------
\* The registry and the cache on their own.  The table is shared with the
\* outside: a record can be deleted out of band.
\* ------------------------------------------------------------------------
\* update_db_cache: the scan's response has no "Items" key and the coroutine
\* returns, which ends the refresh task
CacheRefreshNoItems ==
    /\ Free
    /\ rpc = "run"
    /\ rpc' = "exited"
    /\ UNCHANGED <<store, cache, head, chain, wpc, todo, nlcb, batch, k, emitted,
                   delivered, errNotified, faults, cmds, reply, started, crashes, undelivered, pureVars>>
    /\ UNCHANGED gasVars

StoreItemDeleted ==
    /\ \E c \in Chats :
          /\ Has(store, c)
          /\ store' = [store EXCEPT ![c] = Absent]
          /\ started' = [p \in Chats \X Addrs |-> IF p[1] = c THEN 0 ELSE started[p]]
    /\ UNCHANGED <<cache, head, chain, wpc, todo, nlcb, batch, k, emitted,
                   delivered, errNotified, rpc, faults, cmds, reply, crashes, undelivered, pureVars>>
    /\ UNCHANGED gasVars

RegistryNext ==
    \/ AddCmd
    \/ AddRejectedCmd
    \/ RemoveCmd
    \/ received_wallet_to_pause
    \/ received_wallet_to_resume
    \/ CacheRefresh
    \/ CacheRefreshNoItems
    \/ StoreItemDeleted

RegistrySpec == Init /\ [][RegistryNext]_vars

\* pause and resume commands in a row, with cache refreshes, no tick
StateNext ==
    \/ PauseCmd
    \/ ResumeCmd
    \/ CacheRefresh

StateSpec == Init /\ [][StateNext]_vars

\* the registry with the /list handler
ListNext ==
    \/ AddCmd
    \/ RemoveCmd
    \/ received_wallet_to_pause
    \/ received_wallet_to_resume
    \/ CacheRefresh
    \/ StoreItemDeleted
    \/ ListCmd

ListSpec == Init /\ [][ListNext]_vars

\* ------------------------------------------------------------------------
\* The wallet loop with deliveries that keep failing, no registry command
\* ------------------------------------------------------------------------
DeliveryInit ==
    /\ Init
    /\ store = Table(Rec(<<Wallet("a", "#t", 1, FALSE)>>), Rec(<<Wallet("b", "#t", 1, FALSE)>>))

DeliveryNext ==
    \/ WalletStart
    \/ WalletFetchDone
    \/ WalletPriceDone
    \/ WalletSendDone
    \/ WalletFailSendDone
    \/ WalletFailSendRaised
    \/ WalletSleepDone
    \/ NewBlock

DeliverySpec == DeliveryInit /\ [][DeliveryNext]_vars

\* ------------------------------------------------------------------------
\* The wallet loop with reads of the Store that keep failing, no registry
\* command
\* ------------------------------------------------------------------------
ReadOutageNext ==
    \/ WalletStart
    \/ WalletFetchDone
    \/ WalletPriceDone
    \/ WalletSendDone
    \/ WalletFailSendDone
    \/ WalletSleepDone
    \/ WalletSleepDoneReadFailed
    \/ NewBlock

ReadOutageSpec == DeliveryInit /\ [][ReadOutageNext]_vars

\* ------------------------------------------------------------------------
\* Dispatch pacing: WalletTracker.__calculate_sleep_time on its own.  Times
\* are whole seconds going in and quarters of a second coming out, so that
\* processing_time * 0.5 and base_sleep_time * 1.5 are exact.
\* ------------------------------------------------------------------------

\* batch sizes and processing times the function is applied to
Bursts == {10, 50, 51, 100, 101}

MaxTime == 40

\* base_sleep_time = max(7, processing_time * 0.5), in quarters of a second
base_sleep_time(pt) == IF 2 * pt > 4 * 7 THEN 2 * pt ELSE 4 * 7

\* (variant: the tiers start at 50 and at 100 transactions)
calculate_sleep_time_inclusive(n, pt, max) ==
    LET base == base_sleep_time(pt)
        scaled == IF n >= 100 THEN base * 2
                  ELSE IF n >= 50 THEN (base * 3) \div 2
                  ELSE base
    IN Min(scaled, 4 * max)

\* __calculate_sleep_time, in quarters of a second
calculate_sleep_time(n, pt, max) ==
    LET base == base_sleep_time(pt)
        scaled == IF n > 100 THEN base * 2
                  ELSE IF n > 50 THEN (base * 3) \div 2
                  ELSE base
    IN Min(scaled, 4 * max)

\* the call of __check_wallet_transactions: max_sleep_time=15
CalculateSleepTime ==
    /\ sleep_time = None
    /\ sleep_time' = calculate_sleep_time(total_transactions, processing_time, max_sleep_time)
    /\ UNCHANGED <<total_transactions, processing_time, max_sleep>>
    /\ UNCHANGED <<oracleVars, listVars, thresholdVars>>
    /\ UNCHANGED <<store, cache, head, chain, wpc, todo, nlcb, batch, k, emitted,
                   delivered, errNotified, rpc, faults, cmds, reply, crashes, started, undelivered>>
    /\ UNCHANGED gasVars

PaceInit ==
    /\ store = Table(Absent, Absent)
    /\ started = StartedIn(store)
    /\ InitLoops
    /\ total_transactions \in Bursts
    /\ processing_time \in 0..MaxTime
    /\ max_sleep = max_sleep_time
    /\ sleep_time = None
    /\ InitOracle
    /\ InitList
    /\ InitThresholds

PaceNext == CalculateSleepTime

PaceSpec == PaceInit /\ [][PaceNext]_vars

\* the function over its arguments: any batch size around the tiers, any
\* max_sleep_time from the floor of 7 seconds up
Volumes == {0} \cup Bursts

MaxSleep == 45

\* a call of __calculate_sleep_time with the arguments drawn
CalculateSleepTimeOf ==
    /\ sleep_time = None
    /\ sleep_time' = calculate_sleep_time(total_transactions, processing_time, max_sleep)
    /\ UNCHANGED <<total_transactions, processing_time, max_sleep>>
    /\ UNCHANGED <<oracleVars, listVars, thresholdVars>>
    /\ UNCHANGED <<store, cache, head, chain, wpc, todo, nlcb, batch, k, emitted,
                   delivered, errNotified, rpc, faults, cmds, reply, crashes, started, undelivered>>
    /\ UNCHANGED gasVars

SleepTimeInit ==
    /\ store = Table(Absent, Absent)
    /\ started = StartedIn(store)
    /\ InitLoops
    /\ total_transactions \in Volumes
    /\ processing_time \in 0..MaxTime
    /\ max_sleep \in 7..MaxSleep
    /\ sleep_time = None
    /\ InitOracle
    /\ InitList
    /\ InitThresholds

SleepTimeNext == CalculateSleepTimeOf

SleepTimeSpec == SleepTimeInit /\ [][SleepTimeNext]_vars

OracleInit ==
    /\ store = Table(Absent, Absent)
    /\ started = StartedIn(store)
    /\ InitLoops
    /\ InitPace
    /\ answers \in ProviderAnswers
    /\ eth_price = NotCalled
    /\ message = "none"
    /\ InitList
    /\ InitThresholds

OracleNext ==
    \/ GetEthPriceUsd
    \/ ProcessTransaction

OracleSpec == OracleInit /\ [][OracleNext]_vars

\* requests to set the thresholds, one after the other
ThresholdInit ==
    /\ Init
    /\ store = Table(Absent, Absent)

ThresholdNext == ThresholdsCmd

ThresholdSpec == ThresholdInit /\ [][ThresholdNext]_vars

\* ------------------------------------------------------------------------
\* Properties
\* ------------------------------------------------------------------------

\* the subscriber has a watch of the address
Watched(st, c, a) == Has(st, c) /\ HasAddr(Get(st, c), a)

\* the watch of a subscriber for an address (the first one of the list)
WatchOf(st, c, a) == Get(st, c)[FirstIdx(Get(st, c), a)]

CursorOf(st, c, a) == WatchOf(st, c, a).last_checked_block

\* a step in which send_message of a transaction returns normally
Dispatches == wpc = "send" /\ wpc' = "sleep"

\* a step of the wallet loop in which the check of the current watch ends by
\* raising, or returns None on a non-200 response (commands and new blocks
\* are other tasks' steps)
CheckFails ==
    /\ wpc \in {"fetch", "price", "failsend"}
    /\ faults' = faults + 1
    /\ cmds' = cmds /\ head' = head
    /\ wpc' \notin {"send", "sleep", "cancelled"}

\* the highest block number of a batch
MaxBlockOf(ch, a, txs) ==
    CHOOSE b \in {ch[a][txs[i]] : i \in 1..Len(txs)} :
        \A i \in 1..Len(txs) : ch[a][txs[i]] <= b

\* C1: the stored cursor of a watch never decreases, whatever step is taken
\* (tick, add, pause, resume, remove, failed check of another watch).
C1_CursorNeverDecreases ==
    [][\A c \in Chats, a \in Addrs :
          (Watched(store, c, a) /\ Watched(store', c, a) /\ CursorOf(store, c, a) >= 0)
              => CursorOf(store', c, a) >= CursorOf(store, c, a)]_vars

\* C2: with no failure of the environment so far, a transaction that is
\* dispatched to a subscriber was not dispatched to that subscriber before.
C2_NoDuplicateDispatch ==
    [][(Dispatches /\ faults' = 0)
          => batch[k] \notin delivered[<<Cur.chat, Cur.w.wallet_address>>]]_vars

\* C3: while a watch is paused (before and after a step) its stored cursor does
\* not change.
C3_PausedCursorFrozen ==
    [][\A c \in Chats, a \in Addrs :
          (/\ Watched(store, c, a) /\ Watched(store', c, a)
           /\ WatchOf(store, c, a).paused /\ WatchOf(store', c, a).paused)
              => CursorOf(store', c, a) = CursorOf(store, c, a)]_vars

C5_RestartRedeliversOnlyInFlight ==
    [][(/\ Dispatches /\ faults' = 0
        /\ batch[k] \in delivered[<<Cur.chat, Cur.w.wallet_address>>])
          => \A t \in delivered[<<Cur.chat, Cur.w.wallet_address>>] : t <= batch[k]]_vars

\* C6: when the fetch of a watch returns no transaction, the step changes no
\* stored cursor and dispatches nothing.
C6_EmptyFetchChangesNothing ==
    [][(/\ wpc = "fetch"
        /\ txlist(chain, Cur.w.wallet_address, Cur.w.last_checked_block + 1) = <<>>
        /\ faults' = faults /\ cmds' = cmds)
          => (/\ store' = store
              /\ delivered' = delivered
              /\ errNotified' = errNotified
              /\ wpc' \notin {"price", "send"})]_vars

\* the watch of chat 1 was checked at a later block than its cursor, the fetch
\* was empty (new_last_checked_block is None), nothing was sent
C6_Witness ==
    /\ nlcb = None /\ emitted = 0
    /\ faults = 0 /\ cmds = 0
    /\ head = 3 /\ chain["a"] = <<>>
    /\ wpc = "fetch" /\ Cur.chat = 2
    /\ Watched(store, 1, "a") /\ CursorOf(store, 1, "a") = 1
    /\ delivered[<<1, "a">>] = {}

\* C7: in a gas tick a visited subscriber is sent a message exactly when one of
\* low, average, fast differs from the last sent value by more than
\* update_threshold.
C7_SentIffAboveThreshold ==
    [][\A c \in Chats :
          LET old == LastPrices(last_sent_prices, c)
              above == \E i \in 1..3 :
                          \/ gasNew'[i] - old[i] > update_threshold
                          \/ old[i] - gasNew'[i] > update_threshold
          IN /\ (c \in gasSent' /\ c \notin gasSent) => above
             /\ (c \in gasSeen' /\ c \notin gasSeen /\ c \notin gasSent') => ~above]_vars

\* one tick: chat 1 (never notified) is sent <<5, 5, 6>>; chat 2, last sent
\* <<0, 0, 6>>, differs by exactly update_threshold on low and average and is
\* sent nothing
C7_Witness ==
    /\ gpc = "sleep"
    /\ gasNew = <<update_threshold, update_threshold, update_threshold + 1>>
    /\ gasSeen = {1, 2} /\ gasSent = {1}
    /\ last_sent_prices[2] = [has |-> TRUE, r |-> <<0, 0, update_threshold + 1>>]

\* C8: when the check of a watch fails and an active watch with a valid cursor
\* is left in the tick, the loop goes on to the fetch of that watch.
C8_FailedCheckDoesNotAbortTick ==
    [][(/\ CheckFails
        /\ todo' # todo
        /\ SkipPaused(Tail(todo)) # <<>>
        /\ ValidBlock(Head(SkipPaused(Tail(todo))).w))
          => (wpc' = "fetch" /\ todo' = SkipPaused(Tail(todo)))]_vars

\* C9: a step in which the check of a watch fails changes no cursor, in the
\* Store or in the cache.
C9_FailedCheckKeepsCursors ==
    [][CheckFails => (store' = store /\ cache' = cache)]_vars

\* C10: the wallet loop does not end unless something in the environment
\* fails: a missing or invalid stored cursor is reported and skipped.
C10_BadCursorDoesNotEndLoop ==
    [][(wpc # "dead" /\ faults' = faults) => wpc' # "dead"]_vars

\* C11: a step in which something in the environment fails (source fetch,
\* malformed response, Store error, delivery failure) ends neither polling
\* loop; the loops exit only on cancellation.
C11_FailureEndsNoLoop ==
    [][faults' > faults => (gpc' # "dead" /\ wpc' # "dead")]_vars
\* C12: a step in which something fails and the Store is left as it was (a
\* failed write of a cursor advance, add, remove, pause or resume among them)
\* changes no cache entry.
C12_FailedWriteKeepsCache ==
    [][(faults' = faults + 1 /\ store' = store)
          => \A c \in Chats : Has(cache, c) => cache'[c] = cache[c]]_vars
\* C13: as long as nothing has failed, the cache entry of every cached
\* subscriber is that subscriber's watch list in the Store.
C13_CacheEqualsStore ==
    faults = 0 =>
        \A c \in Chats : Has(cache, c) => (Has(store, c) /\ Get(cache, c) = Get(store, c))

\* chat 1 is cached after an add of b and an advance of a's cursor to 2
C13_Witness ==
    /\ faults = 0 /\ cmds = 1
    /\ Has(cache, 1)
    /\ Len(Get(store, 1)) = 2
    /\ Watched(store, 1, "b")
    /\ Watched(store, 1, "a") /\ CursorOf(store, 1, "a") = 2
    /\ Get(cache, 1) = Get(store, 1)

\* what a scan of the table returns, as a cache
ScanResult(st) == [c \in Chats |-> IF Has(st, c) THEN Rec(Get(st, c)) ELSE Absent]

\* C14: a cache refresh (the step that changes the cache and nothing else)
\* leaves the cache equal to the Store: the Store's list for every subscriber of
\* the Store, no entry for any other subscriber.
C14_RefreshEqualsScan ==
    [][(cache' # cache /\ UNCHANGED <<store, cmds, faults, wpc>>)
          => cache' = ScanResult(store)]_vars

\* no two watches of the list have the same address
Unique(ws) ==
    \A i, j \in 1..Len(ws) : ws[i].wallet_address = ws[j].wallet_address => i = j

\* C15: no subscriber's watch list in the Store has two watches of one address.
C15_TargetsUnique ==
    \A c \in Chats : Unique(Get(store, c))

\* the list the subscriber is shown after a handler: get_tracked_wallets
ListOf(st, ca, c) == get_tracked_wallets(st, ca, c, TRUE).list

\* C16: a registry handler does not raise; after an add that reports success
\* the subscriber's list holds the new watch with the current block as its
\* cursor; after a remove that reports success the list holds no watch of the
\* address.
C16_AddListRemoveRoundTrip ==
    [][cmds' = cmds + 1 =>
          /\ reply'.text # "error"
          /\ reply'.text = "tracking" =>
                 \E i \in 1..Len(ListOf(store', cache', reply'.chat)), t \in Tags :
                     ListOf(store', cache', reply'.chat)[i]
                         = Wallet(reply'.addr, t, head, FALSE)
          /\ reply'.text = "untracked" =>
                 ~HasAddr(ListOf(store', cache', reply'.chat), reply'.addr)]_vars

\* C17: an add that is rejected (invalid address, invalid tag, no current
\* block, name that does not resolve) changes neither the Store nor the cache.
C17_RejectedAddChangesNothing ==
    [][(cmds' = cmds + 1 /\ reply'.text \in {"invalid_wallet", "invalid_tag", "no_block", "failed"})
          => (store' = store /\ cache' = cache)]_vars

\* an add with an invalid address was rejected; the table and the cache are as
\* they were at the start
C17_Witness ==
    /\ cmds = 1
    /\ reply = Reply(1, "invalid_wallet", "")
    /\ store = Table(Rec(<<Wallet("a", "#t", 1, FALSE)>>), Rec(<<Wallet("b", "#t", 1, FALSE)>>))
    /\ cache = [c \in Chats |-> Absent]

\* C18: a transaction dispatched for a watch lies in a block above the
\* last_checked_block the watch was added with.
C18_NoEventAtOrBelowStart ==
    [][Dispatches
          => chain[Cur.w.wallet_address][batch[k]]
                 > started[<<Cur.chat, Cur.w.wallet_address>>]]_vars

\* C19: while the wallet task is running, a cancellation can be delivered to
\* it: it is at a suspension point, where CancelledError is raised and the loop
\* returns.
C19_CancelReachesLoop ==
    wpc \notin {"start", "dead", "cancelled"} => ENABLED WalletCancel

\* C20: the wallet loop leaves the event loop to the other tasks: until
\* shutdown the cache refresh loop can take its next step.
C20_RefreshLoopNotBlocked ==
    (rpc = "run" /\ wpc # "cancelled") => ENABLED CacheRefresh

\* the cursors of a subscriber's watches, in list order
Cursors(st, c) == [i \in 1..Len(Get(st, c)) |-> Get(st, c)[i].last_checked_block]

\* a pause or resume whose write reached the Store
StateWritten == cmds' = cmds + 1 /\ reply'.text \in {"paused", "resumed"} /\ store' # store

\* C21: a pause (or resume) and the cursor advances of the wallet loop on the
\* same subscriber lose no update, whichever comes first: the write of the
\* pause leaves every cursor of the record as the advance wrote it, and once
\* the flag is in the Store no later step of the loop takes the watch or its
\* flag away again.
C21_PauseAndAdvanceLoseNoUpdate ==
    [][/\ StateWritten
          => /\ Cursors(store', reply'.chat) = Cursors(store, reply'.chat)
             /\ WatchOf(store', reply'.chat, reply'.addr).paused = (reply'.text = "paused")
       /\ (/\ cmds' = cmds
           /\ reply.text \in {"paused", "resumed"}
           /\ Watched(store, reply.chat, reply.addr)
           /\ WatchOf(store, reply.chat, reply.addr).paused = (reply.text = "paused"))
          => (/\ Watched(store', reply.chat, reply.addr)
              /\ WatchOf(store', reply.chat, reply.addr).paused = (reply.text = "paused"))]_vars

\* a watch is paused while its check is in flight, and the check's cursor is
\* then written
C21_Witness ==
    /\ reply = Reply(1, "paused", "a")
    /\ store = Table(Rec(<<[Wallet("a", "#t", 2, FALSE) EXCEPT !.paused = TRUE]>>),
                     Rec(<<Wallet("b", "#t", 1, FALSE)>>))
    /\ nlcb = 2
    /\ delivered[<<1, "a">>] # {}

\* C22: with max_sleep_time = 15, a batch of 101 transactions is paced at no
\* less than twice the base delay and no more than the maximum, and a batch of
\* 10 at the base delay itself, whatever the processing time.
C22_BurstDelayBounds ==
    sleep_time # None
        => /\ total_transactions = 101
                => /\ sleep_time >= 2 * base_sleep_time(processing_time)
                   /\ sleep_time <= 4 * max_sleep_time
           /\ total_transactions = 10
                => sleep_time = base_sleep_time(processing_time)

\* C23: a failure of the Store reaches the caller: a handler that answers
\* that the watch was paused (resumed) has had its write done, so the Store
\* holds the watch with that flag.
C23_StoreFailureReported ==
    [][(cmds' = cmds + 1 /\ reply'.text \in {"paused", "resumed"})
          => /\ Watched(store', reply'.chat, reply'.addr)
             /\ WatchOf(store', reply'.chat, reply'.addr).paused = (reply'.text = "paused")]_vars

\* a step of the wallet loop that changes the stored cursor of the watch it
\* is checking
CursorWritten ==
    /\ wpc \in {"fetch", "price", "failsend", "sleep"}
    /\ cmds' = cmds
    /\ Watched(store, Cur.chat, Cur.w.wallet_address)
    /\ Watched(store', Cur.chat, Cur.w.wallet_address)
    /\ CursorOf(store', Cur.chat, Cur.w.wallet_address)
           # CursorOf(store, Cur.chat, Cur.w.wallet_address)

\* block of the transaction the current check has sent last (0: none yet)
LastSent ==
    IF wpc = "fetch" \/ emitted = 0 THEN 0
    ELSE chain[Cur.w.wallet_address][batch[emitted]]

\* C24: in a tick the transactions of a watch are sent in ascending block
\* order, and a cursor written for the watch is not below the cursor it
\* replaces and not above the block of the transaction sent last.
C24_AscendingDispatchAndCursor ==
    [][/\ (wpc = "send" /\ k > 1)
          => chain[Cur.w.wallet_address][batch[k - 1]] <= chain[Cur.w.wallet_address][batch[k]]
       /\ CursorWritten
          => /\ CursorOf(store', Cur.chat, Cur.w.wallet_address)
                    >= CursorOf(store, Cur.chat, Cur.w.wallet_address)
             /\ CursorOf(store', Cur.chat, Cur.w.wallet_address) <= LastSent]_vars

\* C25: a step that is not a pause, a resume or a remove (a step of the wallet
\* loop with its cursor advance, a refresh, an add) leaves the paused flag of
\* every watch of the Store as it was.
C25_OnlyRegistryChangesPaused ==
    [][(cmds' = cmds \/ reply'.text \notin {"paused", "resumed", "untracked"})
          => \A c \in Chats :
                \A i \in 1..Min(Len(Get(store, c)), Len(Get(store', c))) :
                    Get(store', c)[i].paused = Get(store, c)[i].paused]_vars

\* a is paused before the first tick reaches it, and the tick then advances
\* b of the same subscriber
C25_Witness ==
    /\ reply = Reply(1, "paused", "a")
    /\ faults = 0
    /\ errNotified = {}
    /\ Watched(store, 1, "a") /\ WatchOf(store, 1, "a").paused
    /\ Watched(store, 1, "b") /\ CursorOf(store, 1, "b") = 2

\* subscribers the for loop has not reached whose reading differs beyond the
\* threshold
GasPending ==
    {c \in subscribers : c > gasCur /\ Significant(gasNew, LastPrices(last_sent_prices, c))}

\* C26: in a gas tick a send that fails for one subscriber does not end the
\* tick: when another subscriber's reading differs beyond the threshold, the
\* for loop goes on to send to that subscriber.
C26_FailedGasSendIsolated ==
    [][(/\ gpc = "send"
        /\ faults' = faults + 1
        /\ Cardinality(subscribers) = gasSize
        /\ GasPending # {})
          => (gpc' = "send" /\ gasCur' \in GasPending)]_vars

\* a step in which send_message of the current transaction is called
SendAttempt == wpc = "send" /\ wpc' \in {"sleep", "failsend"}

\* C27: a transaction whose delivery failed is not sent again, in the same
\* tick or a later one, and the failure does not stop the batch: the loop
\* goes on to the sleep that precedes the next transaction.
C27_FailedDeliveryNotRetried ==
    [][/\ SendAttempt
          => <<Cur.chat, Cur.w.wallet_address, batch[k]>> \notin undelivered
       /\ (wpc = "failsend" /\ wpc' \notin {"failsend", "cancelled"} /\ k < Len(batch))
          => (wpc' = "sleep" /\ batch' = batch /\ k' = k)]_vars

\* C28: a gas tick whose request is answered with a non-200 response or a
\* status other than "1" sends nothing and leaves every last_sent_prices entry
\* as it was; the loop goes to its sleep.
C28_UnavailableGasSendsNothing ==
    [][(gpc = "fetch" /\ faults' = faults + 1 /\ gpc' # "dead")
          => /\ gpc' = "sleep"
             /\ gasSent' = {}
             /\ last_sent_prices' = last_sent_prices]_vars

\* chat 1 was sent a reading in an earlier tick and is still subscribed; the
\* last request found the source unavailable
C28_Witness ==
    /\ gpc = "sleep"
    /\ faults = 1
    /\ subscribers = {1}
    /\ gasSize = 1
    /\ gasSeen = {}
    /\ last_sent_prices[1].has
    /\ last_sent_prices[1].r[3] > update_threshold

\* the providers that answer with a price
Answering == {i \in 1..Len(answers) : answers[i].kind = "ok"}

\* C29: __get_eth_price_usd returns the price of the first provider, in
\* the order of the list, that answers with one, whatever way the providers
\* before it failed, and None when none answers; the message of the
\* transaction is built in either case, without USD amounts when the price
\* is None.
C29_FirstAnsweringProvider ==
    /\ eth_price.called
          => /\ ~eth_price.raised
             /\ Answering # {}
                   => \E i \in Answering :
                         /\ \A j \in Answering : i <= j
                         /\ eth_price.usd = answers[i].usd
             /\ Answering = {} => eth_price.usd = None
    /\ message # "none"
          => /\ message # "raised"
             /\ (message = "without_usd") = (eth_price.usd = None)

\* C30: whatever the scan returns, the refresh loop stays in its loop, so
\* that it refreshes again after the next sleep.
C30_RefreshLoopKeepsRunning ==
    [][rpc = "run" => rpc' = "run"]_vars

\* C31: get_tracked_wallets is a read-through get.  For a subscriber with a
\* cache entry the cached list is returned and the Store is not read (nothing
\* of the Store, its failing included, shows in the step); on a miss the Store
\* is read, and when it holds a record the cache entry becomes the Store's
\* list and that list is returned.
C31_ReadThroughGet ==
    [][listed' # listed =>
          LET c == listed'.chat IN
          /\ Has(cache, c)
                => /\ listed'.list = Get(cache, c)
                   /\ cache' = cache
                   /\ faults' = faults
          /\ (~Has(cache, c) /\ faults' = faults /\ Has(store, c))
                => /\ listed'.list = Get(store, c)
                   /\ cache' = Put(cache, c, Get(store, c))]_vars

\* chat 1 asked for its list with nothing cached and was given the record of
\* the Store, which is now its cache entry
C31_Witness ==
    /\ listed = [chat |-> 1, list |-> <<Wallet("a", "#t", 1, FALSE)>>]
    /\ cmds = 0 /\ faults = 0
    /\ Get(store, 1) = listed.list
    /\ cache = [c \in Chats |-> IF c = 1 THEN Rec(listed.list) ELSE Absent]

\* the addresses a subscriber watches
Targets(st, c) == {Get(st, c)[i].wallet_address : i \in 1..Len(Get(st, c))}

\* C32: a step of the wallet loop that writes the Store (a cursor advance)
\* leaves every subscriber watching the addresses it watched before, whatever
\* the read inside update_last_checked_block returned.
C32_AdvanceKeepsWatchList ==
    [][(wpc \in {"fetch", "price", "failsend", "sleep"} /\ cmds' = cmds /\ store' # store)
          => \A c \in Chats : Targets(store', c) = Targets(store, c)]_vars

\* a registry command that writes a record for a subscriber who had none,
\* with nothing failing: an add_wallet of a valid target
FirstAdd == cmds' = cmds + 1 /\ faults' = faults /\ ~Has(store, reply'.chat) /\ store' # store

\* C33: add_wallet for a subscriber without a record, with a valid target and
\* no Store failure, does not raise: it returns the address (the handler
\* replies that tracking starts) and the Store holds a record whose list is
\* the one new watch.
C33_FirstAddSucceeds ==
    [][FirstAdd
          => /\ reply'.text = "tracking"
             /\ Has(store', reply'.chat)
             /\ Len(Get(store', reply'.chat)) = 1
             /\ Get(store', reply'.chat)[1].wallet_address = reply'.addr
             /\ Get(store', reply'.chat)[1].last_checked_block = head]_vars

\* the subscriber set has grown or shrunk since the for loop of the tick
\* started, and the loop is awaiting a send
SetChangedInTick == gpc = "send" /\ Cardinality(subscribers) # gasSize

\* C34: a subscribe or unsubscribe handled while the gas loop awaits a send
\* does not end the loop: when the send returns, the loop goes on with the
\* tick (the next send, or the sleep before the next tick).
C34_SubscribeDuringTick ==
    [][(/\ SetChangedInTick
        /\ faults' = faults
        /\ subscribers' = subscribers
        /\ gpc' # "cancelled")
          => gpc' \in {"send", "sleep"}]_vars

\* every price of the reading is within update_threshold of the snapshot
Within(new, lastp) == \A i \in 1..3 : Abs(new[i] - lastp[i]) <= update_threshold

\* C35: when a gas tick with a successful fetch ends, every subscriber the
\* tick has processed has a last_sent snapshot (zeros if never notified)
\* within update_threshold of the fetched reading on low, average and fast;
\* and in every step a subscriber's last_sent entry changes exactly when the
\* step triggers a notification for the subscriber, and it becomes the full
\* new reading.
C35_SnapshotTracksReading ==
    [][/\ (gpc \in {"fetch", "send"} /\ gpc' = "sleep")
          => \A c \in gasSeen' : Within(gasNew', LastPrices(last_sent_prices', c))
       /\ \A c \in Chats :
             /\ (c \in gasSent' /\ c \notin gasSent) <=> last_sent_prices'[c] # last_sent_prices[c]
             /\ (c \in gasSent' /\ c \notin gasSent)
                   => last_sent_prices'[c] = [has |-> TRUE, r |-> gasNew']]_vars

\* a tick has ended in which chat 2 was sent the reading <<5, 5, 6>> and chat
\* 1, whose snapshot is an earlier reading within the threshold, was not
C35_Witness ==
    /\ gpc = "sleep"
    /\ faults = 0
    /\ gasSeen = {1, 2} /\ gasSent = {2}
    /\ last_sent_prices[2] = [has |-> TRUE, r |-> gasNew]
    /\ last_sent_prices[1].has
    /\ last_sent_prices[1].r # gasNew
    /\ gasNew[3] > update_threshold

\* a step of the wallet loop whose update_last_checked_block writes the Store
AdvanceWritten ==
    /\ wpc \in {"fetch", "price", "failsend", "sleep"}
    /\ cmds' = cmds
    /\ store' # store

\* the list new is the list old with, at most, another cursor in the first
\* watch of the address
SameButCursor(old, new, a) ==
    /\ Len(new) = Len(old)
    /\ \A i \in 1..Len(old) :
          IF i = FirstIdx(old, a)
          THEN new[i] = [old[i] EXCEPT !.last_checked_block = new[i].last_checked_block]
          ELSE new[i] = old[i]

\* C36: a cursor advance changes the cursor of the watch of the given
\* subscriber and address and nothing else: the tag and the paused flag of
\* the watch, the other watches of the subscriber and the records of the other
\* subscribers are the same after it, in the Store and in the cache.
C36_AdvanceChangesOnlyCursor ==
    [][AdvanceWritten =>
          /\ \A d \in Chats \ {Cur.chat} : store'[d] = store[d] /\ cache'[d] = cache[d]
          /\ SameButCursor(Get(store, Cur.chat), Get(store', Cur.chat), Cur.w.wallet_address)
          /\ Has(cache, Cur.chat)
                => SameButCursor(Get(cache, Cur.chat), Get(cache', Cur.chat), Cur.w.wallet_address)]_vars

\* the list new is the list old with, at most, another paused flag in the
\* first watch of the address
SameButPaused(old, new, a) ==
    /\ Len(new) = Len(old)
    /\ \A i \in 1..Len(old) :
          IF i = FirstIdx(old, a)
          THEN new[i] = [old[i] EXCEPT !.paused = new[i].paused]
          ELSE new[i] = old[i]

Removed ==
    /\ reply.text = "untracked"
    /\ ~Watched(store, reply.chat, reply.addr)
    /\ ~HasAddr(Get(cache, reply.chat), reply.addr)

\* C38: once remove_wallet has taken a watch out of Store and cache, no step
\* other than a registry command (an add) puts it back: the cursor write of a
\* check of the watch that was in flight finds no watch of the address and
\* inserts none.
C38_RemovedStaysRemoved ==
    [][(Removed /\ cmds' = cmds)
          => (/\ ~Watched(store', reply.chat, reply.addr)
              /\ ~HasAddr(Get(cache', reply.chat), reply.addr))]_vars

\* b of chat 2 was removed before the cursor write of its check: the check
\* has sent b's transaction and returned its block, and the scan that follows
\* the write found the watch of chat 1 alone
C38_Witness ==
    /\ reply = Reply(2, "untracked", "b")
    /\ faults = 0
    /\ chain["a"] = <<>>
    /\ delivered[<<2, "b">>] = {1}
    /\ nlcb = 2
    /\ wpc = "fetch"
    /\ todo = <<[chat |-> 1, w |-> Wallet("a", "#t", 1, FALSE)]>>
    /\ ~Watched(store, 2, "b")
    /\ Has(cache, 2) /\ Get(cache, 2) = <<>>

\* the last request is one received_thresholds turns down: no text, not two
\* words, a word that is no number, or numbers without 0 < green < yellow
TurnedDown(req) ==
    \/ ~req.has_text
    \/ Len(req.words) # 2
    \/ \E i \in 1..Len(req.words) : ~req.words[i].num
    \/ ~(0 < req.words[1].val /\ req.words[1].val < req.words[2].val)

\* C39: the thresholds a subscriber is classified with satisfy
\* 0 < green < yellow at every moment: they are 30 and 35 for a subscriber who
\* never set them, and a request that is malformed or out of order leaves
\* user_thresholds as it was.
C39_ThresholdsOrdered ==
    [][/\ \A c \in Chats :
             LET t == current_thresholds(user_thresholds', c)
             IN /\ 0 < t.green /\ t.green < t.yellow
                /\ ~user_thresholds'[c].has => (t.green = 30 /\ t.yellow = 35)
       /\ (request' # request /\ TurnedDown(request'))
             => user_thresholds' = user_thresholds]_vars

\* chat 1 has set 1 and 3 and then sent 3 and 3, which was turned down; chat 2
\* never set anything
C39_Witness ==
    /\ user_thresholds[1] = [has |-> TRUE, green |-> 1, yellow |-> 3]
    /\ ~user_thresholds[2].has
    /\ request = [chat |-> 1, has_text |-> TRUE, words |-> <<Word(TRUE, 3), Word(TRUE, 3)>>]

\* C40: for every batch size, processing time and max_sleep_time of at least
\* 7 seconds, the delay lies between 7 seconds and max_sleep_time; a smaller
\* batch is never paced slower; a batch of exactly 50 is paced at the base
\* delay and a batch of exactly 100 at one and a half times the base delay
\* (each up to the cap).
C40_DelayBoundsAndTiers ==
    sleep_time # None
        => /\ 4 * 7 <= sleep_time
           /\ sleep_time <= 4 * max_sleep
           /\ \A n \in Volumes :
                 n <= total_transactions
                     => calculate_sleep_time(n, processing_time, max_sleep) <= sleep_time
           /\ total_transactions = 50
                 => sleep_time = Min(base_sleep_time(processing_time), 4 * max_sleep)
           /\ total_transactions = 100
                 => sleep_time = Min((3 * base_sleep_time(processing_time)) \div 2, 4 * max_sleep)

\* 100 transactions after 20 seconds with max_sleep_time = 45: the base delay
\* of 10 seconds is scaled to 15 seconds, below the cap
C40_Witness ==
    /\ total_transactions = 100
    /\ processing_time = 20
    /\ max_sleep = MaxSleep
    /\ sleep_time = 4 * 15

====
